---- MODULE Spec2Model ----
(***************************************************************************)
(* State-machine model of the App component of src/index.tsx: the view,    *)
(* the current translation result, the history store with its durable     *)
(* copy in localStorage, the chat session, and the asynchronous calls to   *)
(* the generative-language collaborator that are in flight, and the        *)
(* simulated file upload with its timers.                                  *)
(*                                                                         *)
(* Every event handler runs to its first await as one step; the rest of    *)
(* an async handler (the code after the await, with its catch and finally) *)
(* is the step that completes the call.  A callback of setInterval or of   *)
(* setTimeout is one step.                                                 *)
(***************************************************************************)
EXTENDS Integers, Sequences, FiniteSets, TLC

VARIABLES
    loaded,             \* the load effect of lines 54-64 has run
    view,               \* useState<View>
    inputText,          \* useState('')
    isLoading,          \* useState(false): the one busy flag
    error,              \* useState('')
    result,             \* useState<TranslationResult | null>
    translationHistory, \* useState<TranslationResult[]>
    localStorage,       \* the entry 'translationHistory' of the durable storage
    isChatOpen,         \* useState(false)
    chatHistory,        \* useState<ChatMessage[]>
    chatInput,          \* useState('')
    chatRef,            \* useRef<Chat | null>
    translateCalls,     \* generateContent calls awaited by handleTranslate
    chatCalls,          \* sendMessage calls awaited by the chat handlers
    now,                \* the value Date.now() returned last
    nTranslate,         \* translate calls started so far
    isUploadingFile,    \* useState(false)
    uploadProgress,     \* useState(0)
    selectedFile,       \* useState<File | null>
    uploadIntervalRef,  \* useRef<number | null>
    intervals,          \* the ids of the setInterval timers that are running
    timeouts,           \* setTimeout callbacks of line 233 that are pending
    nUploads            \* uploads started so far

vars == <<loaded, view, inputText, isLoading, error, result, translationHistory,
          localStorage, isChatOpen, chatHistory, chatInput, chatRef,
          translateCalls, chatCalls, now, nTranslate, isUploadingFile,
          uploadProgress, selectedFile, uploadIntervalRef, intervals,
          timeouts, nUploads>>

\* The state of the file upload.
uploadVars == <<isUploadingFile, uploadProgress, selectedFile,
                uploadIntervalRef, intervals, timeouts, nUploads>>

-----------------------------------------------------------------------------
(* Bounds of the exploration. *)
MaxTranslate == 2
MaxChatCalls == 2
MaxMessages == 2
MaxTicks == 1
MaxUploads == 2
MaxTimeouts == 2

(* .slice(0, 50) of line 138. *)
HistoryLimit == 50

-----------------------------------------------------------------------------
(* Values. *)

\* null, for result and chatRef.current
None == [none |-> TRUE]

\* The value null of uploadIntervalRef.current; the ids that setInterval
\* returns are positive.
NoTimer == 0

\* Texts are sequences of characters; " " is white space.
Space == " "
\* What the user types into the two inputs.
InputTexts == { <<Space>>, <<Space, "b">> }
ChatInputs == { <<Space>>, <<"q">> }

\* The messages of setError.
ErrNone == "none"
ErrEmptyInput == "Por favor, insira um texto para traduzir."
ErrTranslate == "Ocorreu um erro ao traduzir o texto. Tente novamente."

\* String.prototype.trim
RECURSIVE TrimLeft(_)
TrimLeft(s) ==
    IF s = <<>> THEN s
    ELSE IF Head(s) = Space THEN TrimLeft(Tail(s)) ELSE s

RECURSIVE TrimRight(_)
TrimRight(s) ==
    IF s = <<>> THEN s
    ELSE IF s[Len(s)] = Space THEN TrimRight(SubSeq(s, 1, Len(s) - 1)) ELSE s

trim(s) == TrimRight(TrimLeft(s))

\* Number.prototype.toString: the decimal digits, most significant first.
RECURSIVE toString(_)
toString(n) ==
    IF n < 10 THEN <<n>> ELSE Append(toString(n \div 10), n % 10)

\* slice that keeps one element more than asked
slice_OneTooMany(s, n) == SubSeq(s, 1, IF Len(s) < n + 1 THEN Len(s) ELSE n + 1)

\* Array.prototype.slice(0, n)
slice(s, n) == SubSeq(s, 1, IF Len(s) < n THEN Len(s) ELSE n)

\* s without its i-th element
RemoveAt(s, i) == SubSeq(s, 1, i - 1) \o SubSeq(s, i + 1, Len(s))

-----------------------------------------------------------------------------
(* JSON texts.  A text is garbage or the members of one object, or the     *)
(* elements of one array, in the order they are written.                   *)

Garbage == [kind |-> "garbage"]

\* The order in which the members of a TranslationResult are written.
MemberOrder == <<"translation", "originalText", "id", "timestamp">>

stringifyObject(o) ==
    LET keys == SelectSeq(MemberOrder, LAMBDA k : k \in DOMAIN o)
    IN  [kind |-> "object",
         members |-> [i \in 1..Len(keys) |-> <<keys[i], o[keys[i]]>>]]

stringifyArray(a) ==
    [kind |-> "array",
     elements |-> [i \in 1..Len(a) |-> stringifyObject(a[i])]]

\* JSON.parse throws on this text
parseThrows(t) == t.kind = "garbage"

\* The value of the last member with key k, as JSON.parse keeps it.
LastMember(ms, k) ==
    LET idx == {i \in 1..Len(ms) : ms[i][1] = k}
        last == CHOOSE i \in idx : \A j \in idx : j <= i
    IN  ms[last][2]

parseObject(t) ==
    [k \in {t.members[i][1] : i \in 1..Len(t.members)} |-> LastMember(t.members, k)]

parseArray(t) ==
    [i \in 1..Len(t.elements) |-> parseObject(t.elements[i])]

-----------------------------------------------------------------------------
(* The collaborator's answers to generateContent: the call rejects, or     *)
(* response.text is one of these texts.                                    *)

\* A well-formed response; it also carries members named like the ones the
\* program adds.
WellFormedResponse ==
    [kind |-> "object",
     members |-> << <<"translation", "t1">>, <<"originalText", <<"z">>>>,
                    <<"id", <<0>>>>, <<"timestamp", 0>> >>]

ResponseTexts == {WellFormedResponse, Garbage}

\* the spread written last, so that the members of the response win
spread_ResponseWins(parsedResult, own) ==
    [k \in DOMAIN parsedResult \cup DOMAIN own |->
        IF k \in DOMAIN parsedResult THEN parsedResult[k] ELSE own[k]]

\* { ...parsedResult, originalText, id, timestamp } of lines 129-134
spread(parsedResult, own) ==
    [k \in DOMAIN parsedResult \cup DOMAIN own |->
        IF k \in DOMAIN own THEN own[k] ELSE parsedResult[k]]

-----------------------------------------------------------------------------
(* The durable storage before the program starts: no entry, an entry that  *)
(* does not deserialize, or what an earlier run of the program wrote.      *)

Absent == [kind |-> "absent"]

\* The clock when the program starts; earlier runs wrote at earlier times.
StartTime == 2 * HistoryLimit

\* The k-th newest result of an earlier run.
OldItem(k) ==
    [translation |-> "t0", originalText |-> <<"a">>,
     id |-> toString(StartTime - k), timestamp |-> StartTime - k]

OldHistory(n) == [k \in 1..n |-> OldItem(k)]

StorageWith(n) == stringifyArray(OldHistory(n))

\* The history entries the user clicks on: the newest and the oldest.
Clickable(h) == {1, Len(h)} \cap (1..Len(h))

-----------------------------------------------------------------------------
(* Chat values. *)

Reply == <<"reply">>
FallbackOpen == <<"Desculpe, nao consegui iniciar o chat. Tente novamente.">>
FallbackSend == <<"Desculpe, nao consegui processar sua pergunta. Tente novamente.">>

UserMessage(t) == [role |-> "user", text |-> t]
ModelMessage(t) == [role |-> "model", text |-> t]

\* What the system instruction of line 166 embeds: result?.originalText and
\* result?.translation.
contextOf(r) ==
    IF r = None
    THEN [originalText |-> <<"undefined">>, translation |-> "undefined"]
    ELSE [originalText |-> r.originalText, translation |-> r.translation]

\* A call in flight holds the Chat object it was sent on: the one that
\* chatRef.current refers to ("current"), or one that chatRef.current has
\* ceased to refer to ("discarded").
ChatCall(kind) == [kind |-> kind, chat |-> "current"]

\* The calls in flight once chatRef.current is assigned another value.
discarded(calls) ==
    [j \in 1..Len(calls) |-> [calls[j] EXCEPT !.chat = "discarded"]]

\* ai.chats.create of lines 163-168: a new Chat object
createChat(r) == [systemInstruction |-> contextOf(r)]

-----------------------------------------------------------------------------
InitWith(storage) ==
    /\ loaded = FALSE
    /\ view = "home"
    /\ inputText = <<>>
    /\ isLoading = FALSE
    /\ error = ErrNone
    /\ result = None
    /\ translationHistory = <<>>
    /\ localStorage = storage
    /\ isChatOpen = FALSE
    /\ chatHistory = <<>>
    /\ chatInput = <<>>
    /\ chatRef = None
    /\ translateCalls = <<>>
    /\ chatCalls = <<>>
    /\ now = StartTime
    /\ nTranslate = 0
    /\ isUploadingFile = FALSE
    /\ uploadProgress = 0
    /\ selectedFile = None
    /\ uploadIntervalRef = NoTimer
    /\ intervals = {}
    /\ timeouts = 0
    /\ nUploads = 0

Init == \E s \in {Absent, Garbage, StorageWith(1)} : InitWith(s)

\* the load effect with a catch that leaves the corrupt entry in place
loadHistory_KeepsCorrupt ==
    /\ ~loaded
    /\ loaded' = TRUE
    /\ IF localStorage = Absent \/ parseThrows(localStorage)
       THEN UNCHANGED <<translationHistory, localStorage>>
       ELSE /\ translationHistory' = parseArray(localStorage)
            /\ UNCHANGED localStorage
    /\ UNCHANGED <<view, inputText, isLoading, error, result, isChatOpen,
                   chatHistory, chatInput, chatRef, translateCalls, chatCalls,
                   now, nTranslate, uploadVars>>

\* useEffect(() => {...}, []) of lines 54-64
loadHistory ==
    /\ ~loaded
    /\ loaded' = TRUE
    /\ IF localStorage = Absent
       THEN UNCHANGED <<translationHistory, localStorage>>
       ELSE IF parseThrows(localStorage)
            THEN /\ localStorage' = Absent
                 /\ UNCHANGED translationHistory
            ELSE /\ translationHistory' = parseArray(localStorage)
                 /\ UNCHANGED localStorage
    /\ UNCHANGED <<view, inputText, isLoading, error, result, isChatOpen,
                   chatHistory, chatInput, chatRef, translateCalls, chatCalls,
                   now, nTranslate, uploadVars>>

\* What Date.now() may return after it returned t: the clock does not go
\* back, and it need not have moved.
DateNow(t) == {u \in {t, t + 1} : u <= StartTime + MaxTicks}

\* the textarea of lines 330-336, disabled={isLoading || isUploadingFile}
onInputChange(t) ==
    /\ loaded
    /\ view = "home"
    /\ ~isLoading
    /\ ~isUploadingFile
    /\ t # inputText
    /\ inputText' = t
    /\ UNCHANGED <<loaded, view, isLoading, error, result, translationHistory,
                   localStorage, isChatOpen, chatHistory, chatInput, chatRef,
                   translateCalls, chatCalls, now, nTranslate, uploadVars>>

\* handleGoHome that clears the input text as well
handleGoHome_ClearsInput ==
    /\ loaded
    /\ view = "result"
    /\ view' = "home"
    /\ result' = None
    /\ chatHistory' = <<>>
    /\ inputText' = <<>>
    /\ error' = ErrNone
    /\ isChatOpen' = FALSE
    /\ chatRef' = None
    /\ chatCalls' = discarded(chatCalls)
    /\ UNCHANGED <<loaded, isLoading, translationHistory, localStorage,
                   chatInput, translateCalls, now, nTranslate, uploadVars>>

\* handleGoHome without the reset of chatRef and of the error
handleGoHome_KeepsSession ==
    /\ loaded
    /\ view = "result"
    /\ view' = "home"
    /\ result' = None
    /\ chatHistory' = <<>>
    /\ isChatOpen' = FALSE
    /\ UNCHANGED <<loaded, inputText, isLoading, error, translationHistory,
                   localStorage, chatInput, chatRef, translateCalls,
                   chatCalls, now, nTranslate, uploadVars>>

\* handleGoHome, lines 73-81; the link of line 492
handleGoHome ==
    /\ loaded
    /\ view = "result"
    /\ view' = "home"
    /\ result' = None
    /\ chatHistory' = <<>>
    /\ error' = ErrNone
    /\ isChatOpen' = FALSE
    /\ chatRef' = None
    /\ chatCalls' = discarded(chatCalls)
    /\ UNCHANGED <<loaded, inputText, isLoading, translationHistory,
                   localStorage, chatInput, translateCalls, now, nTranslate, uploadVars>>

\* disabled={isLoading || !inputText || isUploadingFile} of line 362
translateEnabled ==
    /\ view = "home"
    /\ ~isLoading
    /\ inputText # <<>>
    /\ ~isUploadingFile

\* handleTranslate with the busy flag set before the validation
handleTranslate_BusyBeforeValidation ==
    /\ loaded
    /\ translateEnabled
    /\ isLoading' = TRUE
    /\ IF trim(inputText) = <<>>
       THEN /\ error' = ErrEmptyInput
            /\ UNCHANGED <<result, translateCalls, nTranslate>>
       ELSE /\ nTranslate < MaxTranslate
            /\ error' = ErrNone
            /\ result' = None
            /\ translateCalls' = Append(translateCalls, inputText)
            /\ nTranslate' = nTranslate + 1
    /\ UNCHANGED <<loaded, view, inputText, translationHistory, localStorage,
                   isChatOpen, chatHistory, chatInput, chatRef, chatCalls, now, uploadVars>>

\* handleTranslate that shows the result page as soon as the call starts
handleTranslate_SwitchesView ==
    /\ loaded
    /\ translateEnabled
    /\ IF trim(inputText) = <<>>
       THEN /\ error' = ErrEmptyInput
            /\ UNCHANGED <<view, isLoading, result, translateCalls, nTranslate>>
       ELSE /\ nTranslate < MaxTranslate
            /\ view' = "result"
            /\ isLoading' = TRUE
            /\ error' = ErrNone
            /\ result' = None
            /\ translateCalls' = Append(translateCalls, inputText)
            /\ nTranslate' = nTranslate + 1
    /\ UNCHANGED <<loaded, inputText, translationHistory, localStorage,
                   isChatOpen, chatHistory, chatInput, chatRef, chatCalls, now,
                   uploadVars>>

\* handleTranslate up to its await, lines 83-96
handleTranslate ==
    /\ loaded
    /\ translateEnabled
    /\ IF trim(inputText) = <<>>
       THEN /\ error' = ErrEmptyInput
            /\ UNCHANGED <<isLoading, result, translateCalls, nTranslate>>
       ELSE /\ nTranslate < MaxTranslate
            /\ isLoading' = TRUE
            /\ error' = ErrNone
            /\ result' = None
            /\ translateCalls' = Append(translateCalls, inputText)
            /\ nTranslate' = nTranslate + 1
    /\ UNCHANGED <<loaded, view, inputText, translationHistory, localStorage,
                   isChatOpen, chatHistory, chatInput, chatRef, chatCalls, now, uploadVars>>

\* newResult of lines 129-134, of the call that captured inputText = text
newResult(parsedResult, text, idTime, stampTime) ==
    spread(parsedResult,
           [originalText |-> text, id |-> toString(idTime),
            timestamp |-> stampTime])

\* the new result put after the previous entries
updatedHistory_KeepsOldest(item, prev) == slice(prev \o <<item>>, HistoryLimit)

\* updatedHistory of line 138
updatedHistory(item, prev) == slice(<<item>> \o prev, HistoryLimit)

\* the catch without the finally: busy stays set
translateCatch_NoFinally(i) ==
    /\ error' = ErrTranslate
    /\ translateCalls' = RemoveAt(translateCalls, i)
    /\ UNCHANGED <<loaded, view, inputText, isLoading, result,
                   translationHistory, localStorage, isChatOpen, chatHistory,
                   chatInput, chatRef, chatCalls, now, nTranslate, uploadVars>>

\* the catch of a handler that had switched the view before parsing
translateCatch_ViewSwitched(i) ==
    /\ error' = ErrTranslate
    /\ isLoading' = FALSE
    /\ view' = "result"
    /\ translateCalls' = RemoveAt(translateCalls, i)
    /\ UNCHANGED <<loaded, inputText, result, translationHistory,
                   localStorage, isChatOpen, chatHistory, chatInput, chatRef,
                   chatCalls, now, nTranslate, uploadVars>>

\* catch and finally of handleTranslate, lines 144-149
translateCatch(i) ==
    /\ error' = ErrTranslate
    /\ isLoading' = FALSE
    /\ translateCalls' = RemoveAt(translateCalls, i)
    /\ UNCHANGED <<loaded, view, inputText, result, translationHistory,
                   localStorage, isChatOpen, chatHistory, chatInput, chatRef,
                   chatCalls, now, nTranslate, uploadVars>>

\* the await of line 96 rejects
translateRejects(i) ==
    /\ i \in 1..Len(translateCalls)
    /\ translateCatch(i)

\* the await of line 96 resolves with response.text = text, lines 128-149
translateResolves(i, text) ==
    /\ i \in 1..Len(translateCalls)
    /\ IF parseThrows(text)
       THEN translateCatch(i)
       ELSE \E t \in DateNow(now) :
              LET item == newResult(parseObject(text), translateCalls[i], t, t)
                  hist == updatedHistory(item, translationHistory)
              IN  /\ result' = item
                  /\ translationHistory' = hist
                  /\ localStorage' = stringifyArray(hist)
                  /\ view' = "result"
                  /\ isLoading' = FALSE
                  /\ now' = t
                  /\ translateCalls' = RemoveAt(translateCalls, i)
                  /\ UNCHANGED <<loaded, inputText, error, isChatOpen,
                                 chatHistory, chatInput, chatRef, chatCalls,
                                 nTranslate, uploadVars>>

\* handleClearHistory without the removeItem
handleClearHistory_KeepsEntry ==
    /\ loaded
    /\ view = "home"
    /\ Len(translationHistory) > 0
    /\ translationHistory' = <<>>
    /\ UNCHANGED <<loaded, view, inputText, isLoading, error, result,
                   localStorage, isChatOpen, chatHistory, chatInput, chatRef,
                   translateCalls, chatCalls, now, nTranslate, uploadVars>>

\* a clear that drops the newest entry only
clearHistory_DropsNewest(store) ==
    IF Len(store.history) <= 1
    THEN [history |-> <<>>, storage |-> Absent]
    ELSE [history |-> Tail(store.history),
          storage |-> stringifyArray(Tail(store.history))]

\* What lines 261-262 make of the history store and of its durable entry:
\* setTranslationHistory([]) and localStorage.removeItem, which removes the
\* entry if there is one and does nothing otherwise.
clearHistory(store) == [history |-> <<>>, storage |-> Absent]

\* handleClearHistory, lines 260-263; the button of lines 369-380, rendered
\* while the history is not empty
handleClearHistory ==
    /\ loaded
    /\ view = "home"
    /\ Len(translationHistory) > 0
    /\ LET cleared == clearHistory([history |-> translationHistory,
                                    storage |-> localStorage])
       IN  /\ translationHistory' = cleared.history
           /\ localStorage' = cleared.storage
    /\ UNCHANGED <<loaded, view, inputText, isLoading, error, result,
                   isChatOpen, chatHistory, chatInput, chatRef,
                   translateCalls, chatCalls, now, nTranslate, uploadVars>>

\* handleViewHistoryItem that moves the entry it shows to the head of the
\* history and stamps it with the time of the visit
handleViewHistoryItem_MovesToHead(i) ==
    /\ loaded
    /\ view = "home"
    /\ i \in 1..Len(translationHistory)
    /\ LET item == [translationHistory[i] EXCEPT !.timestamp = now + 1]
           hist == <<item>> \o RemoveAt(translationHistory, i)
       IN  /\ result' = item
           /\ translationHistory' = hist
           /\ localStorage' = stringifyArray(hist)
    /\ isChatOpen' = FALSE
    /\ chatHistory' = <<>>
    /\ chatRef' = None
    /\ chatCalls' = discarded(chatCalls)
    /\ view' = "result"
    /\ UNCHANGED <<loaded, inputText, isLoading, error, chatInput,
                   translateCalls, now, nTranslate, uploadVars>>

\* handleViewHistoryItem, lines 265-272; the buttons of lines 383-395
handleViewHistoryItem(i) ==
    /\ loaded
    /\ view = "home"
    /\ i \in 1..Len(translationHistory)
    /\ result' = translationHistory[i]
    /\ isChatOpen' = FALSE
    /\ chatHistory' = <<>>
    /\ chatRef' = None
    /\ chatCalls' = discarded(chatCalls)
    /\ view' = "result"
    /\ UNCHANGED <<loaded, inputText, isLoading, error, translationHistory,
                   localStorage, chatInput, translateCalls, now, nTranslate, uploadVars>>

-----------------------------------------------------------------------------
(* The chat. *)

\* handleStartChat up to its await, lines 152-171; the button of lines
\* 518-527.  ai.chats.create returns a Chat or throws.
handleStartChat ==
    /\ loaded
    /\ view = "result"
    /\ ~isChatOpen
    /\ isChatOpen' = TRUE
    /\ IF chatRef # None /\ Len(chatHistory) > 0
       THEN UNCHANGED <<isLoading, chatHistory, chatRef, chatCalls>>
       ELSE \/ /\ Len(chatCalls) < MaxChatCalls
               /\ isLoading' = TRUE
               /\ chatHistory' = <<>>
               /\ chatRef' = createChat(result)
               /\ chatCalls' = Append(discarded(chatCalls), ChatCall("seed"))
            \/ /\ chatHistory' = <<ModelMessage(FallbackOpen)>>
               /\ isLoading' = FALSE
               /\ UNCHANGED <<chatRef, chatCalls>>
    /\ UNCHANGED <<loaded, view, inputText, error, result, translationHistory,
                   localStorage, chatInput, translateCalls, now, nTranslate, uploadVars>>

\* handleCloseChat, line 181; the button of line 558
handleCloseChat ==
    /\ loaded
    /\ view = "result"
    /\ isChatOpen
    /\ isChatOpen' = FALSE
    /\ UNCHANGED <<loaded, view, inputText, isLoading, error, result,
                   translationHistory, localStorage, chatHistory, chatInput,
                   chatRef, translateCalls, chatCalls, now, nTranslate, uploadVars>>

\* the input of lines 605-612
onChatInputChange(t) ==
    /\ loaded
    /\ view = "result"
    /\ isChatOpen
    /\ ~isLoading
    /\ t # chatInput
    /\ chatInput' = t
    /\ UNCHANGED <<loaded, view, inputText, isLoading, error, result,
                   translationHistory, localStorage, isChatOpen, chatHistory,
                   chatRef, translateCalls, chatCalls, now, nTranslate, uploadVars>>

\* disabled={isLoading || !chatInput} of line 613, in the widget of line 528
sendEnabled ==
    /\ view = "result"
    /\ isChatOpen
    /\ ~isLoading
    /\ chatInput # <<>>

\* handleSendMessage up to its await, lines 183-194
handleSendMessage ==
    /\ loaded
    /\ sendEnabled
    /\ IF trim(chatInput) = <<>> \/ isLoading \/ chatRef = None
       THEN UNCHANGED <<chatHistory, chatInput, isLoading, chatCalls>>
       ELSE /\ Len(chatHistory) < MaxMessages
            /\ Len(chatCalls) < MaxChatCalls
            /\ chatHistory' = Append(chatHistory, UserMessage(chatInput))
            /\ chatInput' = <<>>
            /\ isLoading' = TRUE
            /\ chatCalls' = Append(chatCalls, ChatCall("send"))
    /\ UNCHANGED <<loaded, view, inputText, error, result, translationHistory,
                   localStorage, isChatOpen, chatRef, translateCalls, now,
                   nTranslate, uploadVars>>

\* what the rest of the handler does to chatHistory with the message msg:
\* line 172 or 175 for the seed prompt, line 196 or 200 for a send
chatHistoryAfter(kind, msg) ==
    IF kind = "seed" THEN <<msg>> ELSE Append(chatHistory, msg)

\* the await of line 171 or 194 settles: resolved with a reply, or rejected;
\* lines 172-178 and 195-203
chatSettles(j, resolved) ==
    /\ j \in 1..Len(chatCalls)
    /\ LET call == chatCalls[j]
           text == IF resolved THEN Reply
                   ELSE IF call.kind = "seed" THEN FallbackOpen
                   ELSE FallbackSend
       IN  chatHistory' = chatHistoryAfter(call.kind, ModelMessage(text))
    /\ isLoading' = FALSE
    /\ chatCalls' = RemoveAt(chatCalls, j)
    /\ UNCHANGED <<loaded, view, inputText, error, result, translationHistory,
                   localStorage, isChatOpen, chatInput, chatRef,
                   translateCalls, now, nTranslate, uploadVars>>

-----------------------------------------------------------------------------
(* The file upload. *)

\* The files the user picks: e.target.files?.[0] is one of these, or None
\* when the picker gave no file.
PdfType == "application/pdf"
FileSizeLimit == 10 * 1024 * 1024
Files ==
    {[type |-> ty, size |-> sz] :
        ty \in {PdfType, "text/plain"},
        sz \in {FileSizeLimit, FileSizeLimit + 1}}

ErrNotPdf == "Por favor, selecione um arquivo PDF valido."
ErrTooLarge == "O arquivo excede o limite de 10MB."

\* What Math.random() * 20 adds to the progress in one tick: less than 20.
Increments == {19}

\* if (uploadIntervalRef.current) clearInterval(uploadIntervalRef.current)
clearInterval(id) == IF id = NoTimer THEN intervals ELSE intervals \ {id}

\* handleFileChange that rejects a file of exactly the limit
handleFileChange_RejectsAtLimit(file) ==
    /\ loaded
    /\ view = "home"
    /\ ~isLoading
    /\ ~isUploadingFile
    /\ IF file = None
       THEN UNCHANGED <<error, uploadVars>>
       ELSE IF file.type # PdfType
       THEN /\ error' = ErrNotPdf
            /\ UNCHANGED uploadVars
       ELSE IF file.size >= FileSizeLimit
       THEN /\ error' = ErrTooLarge
            /\ UNCHANGED uploadVars
       ELSE /\ nUploads < MaxUploads
            /\ selectedFile' = file
            /\ isUploadingFile' = TRUE
            /\ uploadProgress' = 0
            /\ error' = ErrNone
            /\ uploadIntervalRef' = nUploads + 1
            /\ intervals' = intervals \cup {nUploads + 1}
            /\ nUploads' = nUploads + 1
            /\ UNCHANGED timeouts
    /\ UNCHANGED <<loaded, view, inputText, isLoading, result,
                   translationHistory, localStorage, isChatOpen, chatHistory,
                   chatInput, chatRef, translateCalls, chatCalls, now,
                   nTranslate>>

\* handleFileChange, lines 206-247; the input of line 360,
\* disabled={isLoading || isUploadingFile}
handleFileChange(file) ==
    /\ loaded
    /\ view = "home"
    /\ ~isLoading
    /\ ~isUploadingFile
    /\ IF file = None
       THEN UNCHANGED <<error, uploadVars>>
       ELSE IF file.type # PdfType
       THEN /\ error' = ErrNotPdf
            /\ UNCHANGED uploadVars
       ELSE IF file.size > FileSizeLimit
       THEN /\ error' = ErrTooLarge
            /\ UNCHANGED uploadVars
       ELSE /\ nUploads < MaxUploads
            /\ selectedFile' = file
            /\ isUploadingFile' = TRUE
            /\ uploadProgress' = 0
            /\ error' = ErrNone
            /\ uploadIntervalRef' = nUploads + 1
            /\ intervals' = intervals \cup {nUploads + 1}
            /\ nUploads' = nUploads + 1
            /\ UNCHANGED timeouts
    /\ UNCHANGED <<loaded, view, inputText, isLoading, result,
                   translationHistory, localStorage, isChatOpen, chatHistory,
                   chatInput, chatRef, translateCalls, chatCalls, now,
                   nTranslate>>

\* the callback of setInterval, lines 226-244, of the timer with the id id
uploadTick(id) ==
    /\ id \in intervals
    /\ \E inc \in Increments :
         LET newProgress == uploadProgress + inc
         IN  IF newProgress >= 100
             THEN /\ timeouts < MaxTimeouts
                  /\ intervals' = clearInterval(uploadIntervalRef)
                  /\ timeouts' = timeouts + 1
                  /\ uploadProgress' = 100
             ELSE /\ uploadProgress' = newProgress
                  /\ UNCHANGED <<intervals, timeouts>>
    /\ UNCHANGED <<loaded, view, inputText, isLoading, error, result,
                   translationHistory, localStorage, isChatOpen, chatHistory,
                   chatInput, chatRef, translateCalls, chatCalls, now,
                   nTranslate, isUploadingFile, selectedFile,
                   uploadIntervalRef, nUploads>>

\* the callback of setTimeout, lines 233-238: the notice, then the reset
uploadTimeout ==
    /\ timeouts > 0
    /\ timeouts' = timeouts - 1
    /\ isUploadingFile' = FALSE
    /\ selectedFile' = None
    /\ uploadProgress' = 0
    /\ UNCHANGED <<loaded, view, inputText, isLoading, error, result,
                   translationHistory, localStorage, isChatOpen, chatHistory,
                   chatInput, chatRef, translateCalls, chatCalls, now,
                   nTranslate, uploadIntervalRef, intervals, nUploads>>

\* handleCancelUpload, lines 249-257; the button of line 350, shown while
\* isUploadingFile
handleCancelUpload ==
    /\ loaded
    /\ view = "home"
    /\ isUploadingFile
    /\ intervals' = clearInterval(uploadIntervalRef)
    /\ uploadIntervalRef' = NoTimer
    /\ isUploadingFile' = FALSE
    /\ uploadProgress' = 0
    /\ selectedFile' = None
    /\ UNCHANGED <<loaded, view, inputText, isLoading, error, result,
                   translationHistory, localStorage, isChatOpen, chatHistory,
                   chatInput, chatRef, translateCalls, chatCalls, now,
                   nTranslate, timeouts, nUploads>>

-----------------------------------------------------------------------------
(* The session controller, the history store and the chat. *)

Next ==
    \/ loadHistory
    \/ \E t \in InputTexts : onInputChange(t)
    \/ handleGoHome
    \/ handleTranslate
    \/ \E i \in 1..MaxTranslate : translateRejects(i)
    \/ \E i \in 1..MaxTranslate, text \in ResponseTexts : translateResolves(i, text)
    \/ handleClearHistory
    \/ \E i \in Clickable(translationHistory) : handleViewHistoryItem(i)
    \/ handleStartChat
    \/ handleCloseChat
    \/ \E t \in ChatInputs : onChatInputChange(t)
    \/ handleSendMessage
    \/ \E j \in 1..MaxChatCalls, resolved \in BOOLEAN : chatSettles(j, resolved)

Spec == Init /\ [][Next]_vars

\* Every generateContent call is answered or fails in the end.
translateSettles(i) ==
    translateRejects(i) \/ \E text \in ResponseTexts : translateResolves(i, text)

-----------------------------------------------------------------------------
(* The session controller and the history store, with the part of the chat *)
(* that acts on the state they share: opening and closing the panel and    *)
(* the seed call, whose handler sets and clears the one busy flag.         *)

NextSession ==
    \/ loadHistory
    \/ \E t \in InputTexts : onInputChange(t)
    \/ handleGoHome
    \/ handleTranslate
    \/ \E i \in 1..MaxTranslate : translateRejects(i)
    \/ \E i \in 1..MaxTranslate, text \in ResponseTexts : translateResolves(i, text)
    \/ handleClearHistory
    \/ \E i \in Clickable(translationHistory) : handleViewHistoryItem(i)
    \/ handleStartChat
    \/ handleCloseChat
    \/ \E j \in 1..MaxChatCalls, resolved \in BOOLEAN : chatSettles(j, resolved)

SpecSession == Init /\ [][NextSession]_vars

FairSession ==
    SpecSession /\ \A i \in 1..MaxTranslate : WF_vars(translateSettles(i))

-----------------------------------------------------------------------------
(* The chat on the results of the translations of one run: the durable    *)
(* storage is empty when the program starts, and the history is not        *)
(* cleared.                                                                *)

NextChat ==
    \/ loadHistory
    \/ \E t \in InputTexts : onInputChange(t)
    \/ handleGoHome
    \/ handleTranslate
    \/ \E i \in 1..MaxTranslate : translateRejects(i)
    \/ \E i \in 1..MaxTranslate, text \in ResponseTexts : translateResolves(i, text)
    \/ \E i \in Clickable(translationHistory) : handleViewHistoryItem(i)
    \/ handleStartChat
    \/ handleCloseChat
    \/ \E t \in ChatInputs : onChatInputChange(t)
    \/ handleSendMessage
    \/ \E j \in 1..MaxChatCalls, resolved \in BOOLEAN : chatSettles(j, resolved)

SpecChat == InitWith(Absent) /\ [][NextChat]_vars

-----------------------------------------------------------------------------
(* The file upload next to the session controller and the history store.   *)

NextUpload ==
    \/ loadHistory
    \/ \E t \in InputTexts : onInputChange(t)
    \/ handleGoHome
    \/ handleTranslate
    \/ \E i \in 1..MaxTranslate : translateRejects(i)
    \/ \E i \in 1..MaxTranslate, text \in ResponseTexts : translateResolves(i, text)
    \/ \E i \in Clickable(translationHistory) : handleViewHistoryItem(i)
    \/ \E file \in Files \cup {None} : handleFileChange(file)
    \/ \E id \in 1..MaxUploads : uploadTick(id)
    \/ uploadTimeout
    \/ handleCancelUpload

SpecUpload == Init /\ [][NextUpload]_vars

-----------------------------------------------------------------------------
(* The file upload next to the session controller, the history store and   *)
(* the opening of the chat, whose handler clears the one busy flag.        *)

NextSessionUpload ==
    \/ loadHistory
    \/ \E t \in InputTexts : onInputChange(t)
    \/ handleGoHome
    \/ handleTranslate
    \/ \E i \in 1..MaxTranslate : translateRejects(i)
    \/ \E i \in 1..MaxTranslate, text \in ResponseTexts : translateResolves(i, text)
    \/ handleClearHistory
    \/ \E i \in Clickable(translationHistory) : handleViewHistoryItem(i)
    \/ handleStartChat
    \/ handleCloseChat
    \/ \E j \in 1..MaxChatCalls, resolved \in BOOLEAN : chatSettles(j, resolved)
    \/ \E file \in Files \cup {None} : handleFileChange(file)
    \/ \E id \in 1..MaxUploads : uploadTick(id)
    \/ uploadTimeout
    \/ handleCancelUpload

SpecSessionUpload == Init /\ [][NextSessionUpload]_vars

-----------------------------------------------------------------------------
(* The same, with the history store next to its limit: the durable storage *)
(* holds what an earlier run left, one entry short of the limit or at the  *)
(* limit.                                                                  *)

InitFull ==
    \E n \in {HistoryLimit - 1, HistoryLimit} : InitWith(StorageWith(n))

SpecFull == InitFull /\ [][NextSession]_vars

-----------------------------------------------------------------------------
(* Steps of handleTranslate, for the properties below. *)

\* a call settles by running lines 128-143 to the end
translateSucceeds(i) ==
    \E text \in ResponseTexts : ~parseThrows(text) /\ translateResolves(i, text)

\* a call settles in the catch of line 144: the call rejects or its text does
\* not parse
translateFails(i) ==
    \/ translateRejects(i)
    \/ \E text \in ResponseTexts : parseThrows(text) /\ translateResolves(i, text)

-----------------------------------------------------------------------------
(* Steps of the chat handlers, for the properties below. *)

\* handleStartChat runs into its catch before the await: ai.chats.create
\* of line 163 throws
startChatCreateThrows ==
    /\ handleStartChat
    /\ ~(chatRef # None /\ Len(chatHistory) > 0)
    /\ chatCalls' = chatCalls

\* the seed prompt sent on the Chat that chatRef.current refers to is
\* rejected: the catch of line 173
seedFails(j) ==
    /\ j \in 1..Len(chatCalls)
    /\ chatCalls[j] = ChatCall("seed")
    /\ chatSettles(j, FALSE)

\* handleSendMessage passes the guard of line 185
sendAccepted ==
    /\ handleSendMessage
    /\ chatCalls' # chatCalls

\* the message sent on the Chat that chatRef.current refers to is answered
\* or rejected, lines 195-203
sendSettles(j, resolved) ==
    /\ j \in 1..Len(chatCalls)
    /\ chatCalls[j] = ChatCall("send")
    /\ chatSettles(j, resolved)

-----------------------------------------------------------------------------
(* C1: at most one translate call is in flight: in every reachable state   *)
(* the number of outstanding generateContent calls is 0 or 1.              *)
C1_OneTranslateInFlight == Len(translateCalls) <= 1

(* C2: at most one chat call (seed prompt or send) is in flight: in every  *)
(* reachable state the number of outstanding sendMessage calls is 0 or 1.  *)
C2_OneChatCallInFlight == Len(chatCalls) <= 1

(* C3: whenever a chat session exists, the result whose originalText and   *)
(* translation seeded its system context is the current result.            *)
C3_SessionBoundToCurrentResult ==
    chatRef # None => chatRef.systemInstruction = contextOf(result)

(* C4: each successful translate completion sets the history store to the  *)
(* first 50 entries of the new result followed by the previous store: the  *)
(* new result is the head, the earlier entries follow in their order, and  *)
(* beyond 50 the oldest entry is dropped.                                  *)
C4_RecordPrependsAndTruncates ==
    [][\A i \in 1..MaxTranslate :
          translateSucceeds(i) =>
            LET old == translationHistory
                new == translationHistory'
            IN  /\ Len(new) = IF Len(old) < 50 THEN Len(old) + 1 ELSE 50
                /\ new[1] = result'
                /\ new[1].originalText = translateCalls[i]
                /\ \A k \in 2..Len(new) : new[k] = old[k - 1]]_vars

\* two translations recorded into a store that held 49 entries: the store
\* holds 50 and the oldest entry of the earlier run is gone
C4_Witness ==
    /\ nTranslate = 2
    /\ translateCalls = <<>>
    /\ Len(translationHistory) = 50
    /\ translationHistory[2].originalText = <<Space, "b">>
    /\ translationHistory[50] = OldItem(48)

(* C5: the history store never holds more than 50 entries, right after the *)
(* load from durable storage and after any sequence of translate, clear    *)
(* and viewHistoryItem.                                                    *)
C5_HistoryAtMost50 == Len(translationHistory) <= 50

\* a translation recorded into a store that the load had filled to 50
C5_Witness ==
    /\ loaded
    /\ Len(translationHistory) = 50
    /\ translationHistory[1].id = toString(now)
    /\ translationHistory[50] = OldItem(49)
    /\ localStorage = stringifyArray(translationHistory)

(* C6: once the load has run, the durable entry equals the history store   *)
(* in every reachable state, an absent entry counting as the empty         *)
(* sequence.                                                               *)
C6_StorageMatchesStore ==
    loaded =>
        IF localStorage = Absent
        THEN translationHistory = <<>>
        ELSE /\ ~parseThrows(localStorage)
             /\ Len(localStorage.elements) = Len(translationHistory)
             /\ parseArray(localStorage) = translationHistory

\* a translation has been recorded in front of an earlier one and the
\* durable entry holds the two
C6_Witness ==
    /\ loaded
    /\ nTranslate = 2
    /\ translateCalls = <<>>
    /\ Len(translationHistory) = 2
    /\ translationHistory[2].originalText = <<Space, "b">>
    /\ localStorage # Absent
    /\ Len(localStorage.elements) = 2

(* C7: a translate call that is answered with a well-formed response       *)
(* yields a result whose originalText is the submitted input and whose id  *)
(* and timestamp are the program's clock at completion, not the response's *)
(* members of those names; the result becomes the current result and the   *)
(* head of the history store, and view becomes result.                     *)
C7_TranslateSuccess ==
    [][\A i \in 1..MaxTranslate :
          translateSucceeds(i) =>
            /\ trim(translateCalls[i]) # <<>>
            /\ result' # None
            /\ result'.originalText = translateCalls[i]
            /\ now' \in {now, now + 1}
            /\ result'.timestamp = now'
            /\ result'.id = toString(now')
            /\ result'.translation = "t1"
            /\ translationHistory'[1] = result'
            /\ view' = "result"]_vars

\* the result of a call is displayed with the text that was submitted, while
\* the input holds another text
C7_Witness ==
    /\ view = "result"
    /\ result # None
    /\ result.originalText = <<Space, "b">>
    /\ result.id = toString(now)
    /\ translationHistory[1] = result
    /\ inputText = <<Space>>

(* C8: translate with a text that is empty after trimming sets the         *)
(* validation message and changes nothing else: no call is made, busy is   *)
(* not set, and view, current result, history store, durable storage and   *)
(* chat state stay as they are.                                            *)
C8_EmptyInputOnlySetsError ==
    [][(handleTranslate /\ trim(inputText) = <<>>) =>
          /\ error' = ErrEmptyInput
          /\ UNCHANGED <<loaded, view, inputText, isLoading, result,
                         translationHistory, localStorage, isChatOpen,
                         chatHistory, chatInput, chatRef, translateCalls,
                         chatCalls, now, nTranslate, uploadVars>>]_vars

\* the validation message is shown and nothing is in flight
C8_Witness ==
    /\ error = ErrEmptyInput
    /\ inputText = <<Space>>
    /\ ~isLoading
    /\ translateCalls = <<>>
    /\ view = "home"

(* C9: a translate call that fails sets the generic translation error and  *)
(* clears busy, and the call stores no partial result: neither its start   *)
(* nor its failure changes the current result, the view, the history store *)
(* or the durable storage.                                                 *)
C9_FailedTranslateStoresNothing ==
    [][/\ \A i \in 1..MaxTranslate :
            translateFails(i) =>
              /\ error' = ErrTranslate
              /\ ~isLoading'
              /\ Len(translateCalls') = Len(translateCalls) - 1
              /\ UNCHANGED <<result, view, translationHistory, localStorage>>
       /\ handleTranslate =>
              UNCHANGED <<result, view, translationHistory, localStorage>>]_vars

\* a call has failed while a history entry was displayed
C9_Witness ==
    /\ error = ErrTranslate
    /\ ~isLoading
    /\ translateCalls = <<>>
    /\ nTranslate = 1
    /\ view = "result"
    /\ result = OldItem(1)
    /\ translationHistory = <<OldItem(1)>>

(* C10: every translate call that starts completes in the end, given that  *)
(* the collaborator answers or fails, and in the state right after a       *)
(* completion, successful or not, busy is false.                           *)
C10_BusyClearedOnEveryPath ==
    /\ [][\A i \in 1..MaxTranslate :
            (translateSucceeds(i) \/ translateFails(i)) => ~isLoading']_vars
    /\ (translateCalls # <<>>) ~> (translateCalls = <<>>)

\* both kinds of completion have happened and busy is false
C10_Witness ==
    /\ nTranslate = 2
    /\ translateCalls = <<>>
    /\ ~isLoading
    /\ error = ErrTranslate
    /\ Len(translationHistory) = 1
    /\ translationHistory[1].originalText = <<Space, "b">>

(* C11: view and the current result change in three ways only: a          *)
(* translate completion that succeeds while view = home sets view to       *)
(* result, goHome takes result to home, and viewHistoryItem takes home to  *)
(* result; no other step changes view or replaces the current result.      *)
C11_ThreeViewTransitions ==
    [][(view' # view \/ result' # result) =>
          \/ /\ view = "home"
             /\ view' = "result"
             /\ \E i \in 1..MaxTranslate : translateSucceeds(i)
          \/ /\ view = "result"
             /\ view' = "home"
             /\ handleGoHome
          \/ /\ view = "home"
             /\ view' = "result"
             /\ \E i \in 1..Len(translationHistory) :
                   handleViewHistoryItem(i)]_vars

(* C12: in the state right after goHome, from whatever state it is taken, *)
(* view is home, there is no current result, the error is cleared, no chat *)
(* session exists, the message log is empty and the chat panel is closed.  *)
C12_GoHomeResets ==
    [][handleGoHome =>
          /\ view' = "home"
          /\ result' = None
          /\ error' = ErrNone
          /\ chatRef' = None
          /\ chatHistory' = <<>>
          /\ ~isChatOpen']_vars

\* goHome was taken from the result of a translation of this run, with a
\* chat session whose seed call is still in flight
C12_Witness ==
    /\ view = "home"
    /\ result = None
    /\ error = ErrNone
    /\ chatRef = None
    /\ chatHistory = <<>>
    /\ ~isChatOpen
    /\ Len(translationHistory) = 1
    /\ translationHistory[1].originalText = <<Space, "b">>
    /\ Len(chatCalls) = 1
    /\ chatCalls[1].chat = "discarded"

(* C13: the input text is changed by the user editing it and by nothing   *)
(* else: goHome, the start, the success and the failure of a translate,    *)
(* viewHistoryItem and every chat operation leave it as it is.             *)
C13_InputTextOnlyEdited ==
    [][/\ inputText' # inputText => \E t \in InputTexts : onInputChange(t)
       /\ (\/ handleGoHome
           \/ handleTranslate
           \/ \E i \in 1..MaxTranslate : translateSucceeds(i) \/ translateFails(i)
           \/ \E i \in 1..Len(translationHistory) : handleViewHistoryItem(i)
           \/ handleStartChat
           \/ handleCloseChat
           \/ \E t \in ChatInputs : onChatInputChange(t)
           \/ handleSendMessage
           \/ \E j \in 1..MaxChatCalls, resolved \in BOOLEAN :
                 chatSettles(j, resolved))
          => inputText' = inputText]_vars

\* the text typed once has been translated, submitted again after goHome
\* without being typed again, failed, and is still there after a chat
C13_Witness ==
    /\ inputText = <<Space, "b">>
    /\ nTranslate = 2
    /\ translateCalls = <<>>
    /\ error = ErrTranslate
    /\ view = "result"
    /\ result # None
    /\ result.originalText = inputText
    /\ Len(chatHistory) = 3
    /\ chatHistory[2] = UserMessage(<<"q">>)

(* C14: viewHistoryItem starts no call to the collaborator and leaves the  *)
(* history store and the durable storage as they are, the current result   *)
(* becoming the entry itself; goHome leaves the store and the storage as   *)
(* they are too, so that viewHistoryItem, goHome, viewHistoryItem of one   *)
(* entry displays the same result, field by field, both times.             *)
C14_ViewingDoesNotMutate ==
    [][/\ \A i \in 1..Len(translationHistory) :
            handleViewHistoryItem(i) =>
              /\ result' = translationHistory[i]
              /\ result' = translationHistory'[i]
              /\ Len(chatCalls') = Len(chatCalls)
              /\ UNCHANGED <<translationHistory, localStorage, translateCalls,
                             nTranslate>>
       /\ handleGoHome =>
              UNCHANGED <<translationHistory, localStorage, translateCalls,
                          nTranslate>>]_vars

\* the entry of an earlier run is displayed for the second time: a chat was
\* opened on its first display, goHome discarded that session with its seed
\* call in flight, and the entry was clicked again
C14_Witness ==
    /\ nTranslate = 0
    /\ view = "result"
    /\ result = OldItem(1)
    /\ translationHistory = <<OldItem(1)>>
    /\ localStorage = StorageWith(1)
    /\ chatRef = None
    /\ Len(chatCalls) = 1
    /\ chatCalls[1].chat = "discarded"

(* C15: opening the chat while the session of the current result exists   *)
(* reuses it, at whatever point after the first open: the step sends no    *)
(* seed prompt, builds no session and leaves the message log as it is.     *)
C15_ReopenReusesSession ==
    [][(/\ handleStartChat
        /\ chatRef # None
        /\ chatRef.systemInstruction = contextOf(result))
          => UNCHANGED <<chatRef, chatCalls, chatHistory>>]_vars

(* C16: a failure while the chat is opened, of the creation of the        *)
(* session or of the seed prompt, leaves the message log holding the one   *)
(* fallback message of the model role, clears busy and leaves a session    *)
(* that accepts a send: chatRef.current is set, so that the guard of the   *)
(* send handler passes for a text that is not empty.                       *)
C16_OpenFailureLeavesUsableSession ==
    [][(startChatCreateThrows \/ \E j \in 1..MaxChatCalls : seedFails(j)) =>
          /\ chatHistory' = <<ModelMessage(FallbackOpen)>>
          /\ ~isLoading'
          /\ chatRef' # None]_vars

\* the messages of the user in a log
UserMessagesIn(log) == {k \in 1..Len(log) : log[k].role = "user"}

\* the send calls in flight on the Chat that chatRef.current refers to
CurrentSends == {j \in 1..Len(chatCalls) : chatCalls[j] = ChatCall("send")}

(* C17: an accepted send appends the message of the user to the log, and   *)
(* the completion of its call appends one message of the model role, the   *)
(* reply or, on failure, the fallback, and clears busy; the message of the *)
(* user is still in the log when its call completes, so that the log has   *)
(* grown by the two messages.                                              *)
C17_SendAppendsTwo ==
    [][/\ sendAccepted =>
              chatHistory' = Append(chatHistory, UserMessage(chatInput))
       /\ \A j \in 1..MaxChatCalls, resolved \in BOOLEAN :
            sendSettles(j, resolved) =>
              /\ Cardinality(UserMessagesIn(chatHistory))
                    >= Cardinality(CurrentSends)
              /\ chatHistory' =
                    Append(chatHistory,
                           ModelMessage(IF resolved THEN Reply ELSE FallbackSend))
              /\ ~isLoading']_vars

\* handleStartChat builds a session: lines 163-171 run to the await
startChatCreates ==
    /\ handleStartChat
    /\ chatCalls' # chatCalls

\* the log new is the log old, or the log old with messages put at its end
IsPrefix(old, new) ==
    /\ Len(old) <= Len(new)
    /\ SubSeq(new, 1, Len(old)) = old

(* C18: while a chat session exists its message log is append-only: every  *)
(* step between the creation of the session and its destruction leaves    *)
(* the log as it is or puts one message at its end; no message of the log  *)
(* is removed, replaced or moved.                                          *)
C18_LogAppendOnly ==
    [][(chatRef # None /\ chatRef' # None /\ ~startChatCreates) =>
          /\ IsPrefix(chatHistory, chatHistory')
          /\ Len(chatHistory') <= Len(chatHistory) + 1]_vars

(* C19: closing the chat discards the session: right after the close no   *)
(* session object exists and the message log is empty, so that the         *)
(* messages and the system context are gone and the next open has to build *)
(* a session.                                                              *)
C19_CloseDiscardsSession ==
    [][handleCloseChat =>
          /\ chatRef' = None
          /\ chatHistory' = <<>>]_vars

(* C20: the intake of a file starts the upload if and only if the file is *)
(* a PDF of at most 10 * 1024 * 1024 bytes, the limit included: the file   *)
(* is selected, the uploading flag is set, the progress is 0 and a new     *)
(* tick timer runs.  For any other file the step sets the error message    *)
(* and leaves view, current result, history, durable storage, chat state   *)
(* and upload state (flag, progress, selected file, timers) as they are.   *)
C20_IntakeAcceptsPdfUpToLimit ==
    [][\A file \in Files :
          handleFileChange(file) =>
            IF file.type = "application/pdf" /\ file.size <= 10 * 1024 * 1024
            THEN /\ isUploadingFile'
                 /\ selectedFile' = file
                 /\ uploadProgress' = 0
                 /\ uploadIntervalRef' \in intervals' \ intervals
            ELSE /\ error' = IF file.type = "application/pdf"
                             THEN ErrTooLarge ELSE ErrNotPdf
                 /\ UNCHANGED <<view, result, translationHistory,
                                localStorage, isChatOpen, chatHistory,
                                chatInput, chatRef, chatCalls, translateCalls,
                                inputText, isLoading, uploadVars>>]_vars

\* a PDF of exactly the limit has been taken in and its upload has run to
\* the end; after that a PDF of one byte more has been turned down
C20_Witness ==
    /\ nUploads = 1
    /\ error = ErrTooLarge
    /\ ~isUploadingFile
    /\ selectedFile = None
    /\ uploadProgress = 0
    /\ intervals = {}
    /\ timeouts = 0
    /\ uploadIntervalRef = 1

(* C21: clear on the history store is idempotent: after one clear the     *)
(* store is empty and the durable entry is absent, a second clear right    *)
(* after it gives the same store and the same absent entry, and the clear  *)
(* changes neither the view, the current result, the error nor the chat.   *)
C21_ClearIdempotent ==
    [][handleClearHistory =>
          LET before == [history |-> translationHistory,
                         storage |-> localStorage]
              once == [history |-> translationHistory',
                       storage |-> localStorage']
          IN  /\ once = clearHistory(before)
              /\ once.history = <<>>
              /\ once.storage = Absent
              /\ clearHistory(once) = once
              /\ UNCHANGED <<view, result, error, isChatOpen, chatHistory,
                             chatInput, chatRef, chatCalls>>]_vars

\* the history of this run, which held a result, has been cleared
C21_Witness ==
    /\ loaded
    /\ translationHistory = <<>>
    /\ localStorage = Absent
    /\ nTranslate = 2
    /\ translateCalls = <<>>
    /\ error = ErrNone
    /\ view = "home"

(* C22: the load at startup sets the history store to the sequence that   *)
(* an earlier run persisted when the durable entry deserializes; when it   *)
(* does not, the store stays empty and the corrupt entry is removed; with  *)
(* no entry the store stays empty.  The load reports no error.             *)
C22_LoadRestoresOrDiscards ==
    [][loadHistory =>
          /\ IF localStorage = Absent
             THEN translationHistory' = <<>> /\ localStorage' = Absent
             ELSE IF localStorage = Garbage
             THEN translationHistory' = <<>> /\ localStorage' = Absent
             ELSE /\ localStorage' = localStorage
                  /\ \A n \in 0..HistoryLimit :
                        localStorage = StorageWith(n) =>
                          translationHistory' = OldHistory(n)
                  /\ Len(translationHistory') = Len(localStorage.elements)
          /\ error' = ErrNone]_vars

\* the entry of an earlier run has been loaded and nothing else has been
\* done
C22_Witness ==
    /\ loaded
    /\ translationHistory = OldHistory(1)
    /\ localStorage = StorageWith(1)
    /\ view = "home"
    /\ inputText = <<>>
    /\ nTranslate = 0
    /\ chatCalls = <<>>

\* a call sent on a Chat that chatRef.current has ceased to refer to is
\* answered or rejected
staleChatSettles(j, resolved) ==
    /\ j \in 1..Len(chatCalls)
    /\ chatCalls[j].chat = "discarded"
    /\ chatSettles(j, resolved)

(* C23: nothing of a destroyed chat session comes back: when a seed or     *)
(* send call of a session that goHome or viewHistoryItem has destroyed     *)
(* completes afterwards, the message log stays as it is, empty until the   *)
(* next open and, after it, the log of the session opened later.           *)
C23_DestroyedSessionStaysGone ==
    [][\A j \in 1..MaxChatCalls, resolved \in BOOLEAN :
          staleChatSettles(j, resolved) => chatHistory' = chatHistory]_vars

\* the tick timer of the upload started last is running
tickTimerRunning == uploadIntervalRef \in intervals

(* C24: an upload that is not cancelled runs to its end undisturbed: while *)
(* its tick timer is running, every step other than the cancel leaves the  *)
(* uploading flag set and the selected file in place, and the progress     *)
(* stays within 0..100 and does not decrease; the reset comes after the    *)
(* progress has reached 100 and the tick timer has stopped.                *)
C24_UploadRunsToCompletion ==
    [][(isUploadingFile /\ tickTimerRunning /\ ~handleCancelUpload) =>
          /\ isUploadingFile'
          /\ selectedFile' = selectedFile
          /\ uploadProgress' >= uploadProgress
          /\ uploadProgress' \in 0..100]_vars

(* C25: cancelling stops the upload for good: once the uploading flag is   *)
(* false no timer of an upload is left, neither a tick timer nor a pending *)
(* completion timer, so that nothing of the cancelled upload acts later;   *)
(* whenever a tick timer is running the uploading flag is true.            *)
C25_CancelStopsUpload ==
    ~isUploadingFile => (intervals = {} /\ timeouts = 0)

(* C26: the ids of the results in the history store are pairwise distinct *)
(* in every reachable state, the clock never going back but possibly not   *)
(* advancing between two completions.                                      *)
C26_IdsDistinct ==
    \A a, b \in 1..Len(translationHistory) :
        a # b => translationHistory[a].id # translationHistory[b].id

(* C27: in every reachable state with view = result there is a current    *)
(* result: no interleaving of the start of a translate, which clears the   *)
(* current result, its completion, viewHistoryItem and goHome shows the    *)
(* result page without a result.                                           *)
C27_ResultPageHasResult == view = "result" => result # None

\* a history entry is displayed while the translate call that cleared the
\* current result at its start is still in flight
C27_Witness ==
    /\ view = "result"
    /\ result = OldItem(1)
    /\ isLoading
    /\ translateCalls = << <<Space, "b">> >>
    /\ chatCalls = <<>>

(* C28: the upload and a translate call never overlap: in no reachable     *)
(* state is a translate call in flight while the uploading flag is true.   *)
C28_NoUploadDuringTranslate ==
    ~(translateCalls # <<>> /\ isUploadingFile)

====
